---- MODULE Spec2Model ----
(***************************************************************************)
(* HRM analyzer (denishdholaria/hrm-rtpcr): the DataProcessor of           *)
(* src/js/app.js with its utility functions, as a state machine.           *)
(*                                                                         *)
(* Numbers.  A JavaScript number is modelled as a pair <<n, d>>:           *)
(*   d > 0   the rational n/d in lowest terms,                             *)
(*   <<1,0>> +Infinity, <<-1,0>> -Infinity, <<0,0>> NaN.                   *)
(* Arithmetic is exact (no rounding of doubles) and zero carries no sign;  *)
(* every division by zero in the code has a denominator of the form a - b  *)
(* or a length, which is +0 in IEEE arithmetic.                            *)
(*                                                                         *)
(* Arrays are sequences; the code's 0-based index i is position i+1.       *)
(* Objects are records; a key the object does not have is a field outside  *)
(* the record's DOMAIN.                                                    *)
(***************************************************************************)
EXTENDS Integers, Sequences, FiniteSets, TLC

\* ------------------------------------------------------------------------
\* JavaScript numbers
\* ------------------------------------------------------------------------
NaN == <<0, 0>>
PInf == <<1, 0>>
NInf == <<-1, 0>>
Zero == <<0, 1>>
One == <<1, 1>>

IntAbs(n) == IF n < 0 THEN -n ELSE n
Sign(n) == IF n < 0 THEN -1 ELSE IF n > 0 THEN 1 ELSE 0

RECURSIVE Gcd(_, _)
Gcd(a, b) == IF b = 0 THEN a ELSE Gcd(b, a % b)

\* the number n/d for d # 0, in lowest terms with a positive denominator
Rat(n, d) ==
  LET g == Gcd(IntAbs(n), IntAbs(d))
  IN  <<(Sign(d) * n) \div g, IntAbs(d) \div g>>

Int2Num(n) == <<n, 1>>

isNaN(a) == a = NaN
IsInf(a) == a[2] = 0 /\ a[1] # 0
IsFinite(a) == a[2] > 0

\* a + b
Add(a, b) ==
  IF isNaN(a) \/ isNaN(b) THEN NaN
  ELSE IF IsInf(a) THEN (IF IsInf(b) /\ b # a THEN NaN ELSE a)
  ELSE IF IsInf(b) THEN b
  ELSE Rat(a[1] * b[2] + b[1] * a[2], a[2] * b[2])

\* -a
Neg(a) == <<-a[1], a[2]>>

\* a - b
Sub(a, b) == Add(a, Neg(b))

\* a / b
Div(a, b) ==
  IF isNaN(a) \/ isNaN(b) THEN NaN
  ELSE IF IsInf(a) THEN
         (IF IsInf(b) THEN NaN
          ELSE IF b[1] < 0 THEN Neg(a) ELSE a)
  ELSE IF IsInf(b) THEN Zero
  ELSE IF b[1] = 0 THEN
         (IF a[1] = 0 THEN NaN ELSE IF a[1] > 0 THEN PInf ELSE NInf)
  ELSE Rat(a[1] * b[2], a[2] * b[1])

\* Math.abs(a)
MathAbs(a) == <<IntAbs(a[1]), a[2]>>

\* a > b (false when either side is NaN)
Gt(a, b) ==
  /\ ~isNaN(a)
  /\ ~isNaN(b)
  /\ IF IsInf(a) THEN a = PInf /\ b # PInf
     ELSE IF IsInf(b) THEN b = NInf
     ELSE a[1] * b[2] > b[1] * a[2]

\* Math.floor(n * 0.1) and Math.floor(n * 0.9) for an array length n: the
\* doubles 0.1 and 0.9 lie just above 1/10 and 9/10, and the rounded product
\* never crosses an integer for lengths of this size
FloorTenth(n) == n \div 10
FloorNineTenths(n) == (9 * n) \div 10

\* ------------------------------------------------------------------------
\* JavaScript values that reach the processor from outside: table cells
\* (PapaParse with dynamicTyping, or the archive parser) and the value of
\* the reference <select>
\* ------------------------------------------------------------------------
JSNull == [k |-> "null"]
JSUndefined == [k |-> "undefined"]
JSNum(x) == [k |-> "num", v |-> x]
JSStr(s) == [k |-> "str", s |-> s]

Digits == <<"0", "1", "2", "3", "4", "5", "6", "7", "8", "9">>
IsDigit(c) == \E i \in 1..10 : Digits[i] = c
DigitVal(c) == (CHOOSE i \in 1..10 : Digits[i] = c) - 1

RECURSIVE Pow10(_)
Pow10(k) == IF k = 0 THEN 1 ELSE 10 * Pow10(k - 1)

\* s without its first n characters
Drop(s, n) == SubSeq(s, n + 1, Len(s))

RECURSIVE SkipSpace(_)
SkipSpace(s) == IF s # <<>> /\ s[1] = " " THEN SkipSpace(Tail(s)) ELSE s

\* the longest prefix of decimal digits of s: <<value, number of digits>>
RECURSIVE ScanDigits(_, _, _)
ScanDigits(s, acc, cnt) ==
  IF s # <<>> /\ IsDigit(s[1])
  THEN ScanDigits(Tail(s), 10 * acc + DigitVal(s[1]), cnt + 1)
  ELSE <<acc, cnt>>

InfinityWord == <<"I", "n", "f", "i", "n", "i", "t", "y">>

\* parseFloat of a string: leading blanks, a sign, then Infinity or the
\* longest decimal literal (digits with an optional fraction); anything
\* after it is ignored; no literal: NaN.  (No exponent part: the alphabet
\* of the modelled strings has no e/E.)
ParseFloatStr(str) ==
  LET s0 == SkipSpace(str)
      neg == s0 # <<>> /\ s0[1] = "-"
      s1 == IF s0 # <<>> /\ s0[1] \in {"-", "+"} THEN Tail(s0) ELSE s0
      ip == ScanDigits(s1, 0, 0)
      s2 == Drop(s1, ip[2])
      hasDot == s2 # <<>> /\ s2[1] = "."
      fp == IF hasDot THEN ScanDigits(Tail(s2), 0, 0) ELSE <<0, 0>>
      mag == Rat(ip[1] * Pow10(fp[2]) + fp[1], Pow10(fp[2]))
  IN  IF Len(s1) >= 8 /\ SubSeq(s1, 1, 8) = InfinityWord
      THEN (IF neg THEN NInf ELSE PInf)
      ELSE IF ip[2] + fp[2] = 0 THEN NaN
      ELSE IF neg THEN Neg(mag) ELSE mag

\* parseFloat(v): the argument is converted to a string first; a number
\* prints and parses back to itself, null and undefined print as words
parseFloat(v) ==
  CASE v.k = "num" -> v.v
    [] v.k = "str" -> ParseFloatStr(v.s)
    [] OTHER -> NaN

\* parseInt of a string, radix 10: leading blanks, a sign, the longest
\* prefix of digits; none: NaN
ParseIntStr(str) ==
  LET s0 == SkipSpace(str)
      neg == s0 # <<>> /\ s0[1] = "-"
      s1 == IF s0 # <<>> /\ s0[1] \in {"-", "+"} THEN Tail(s0) ELSE s0
      ip == ScanDigits(s1, 0, 0)
  IN  IF ip[2] = 0 THEN NaN
      ELSE IF neg THEN Int2Num(-ip[1]) ELSE Int2Num(ip[1])

\* parseInt(v): a finite number prints as a decimal literal whose integer
\* part is kept (truncation toward zero); Infinity and NaN print as words
parseInt(v) ==
  CASE v.k = "num" ->
         (IF IsFinite(v.v)
          THEN Int2Num(Sign(v.v[1]) * (IntAbs(v.v[1]) \div v.v[2]))
          ELSE NaN)
    [] v.k = "str" -> ParseIntStr(v.s)
    [] OTHER -> NaN

\* ------------------------------------------------------------------------
\* Arrays
\* ------------------------------------------------------------------------
\* the marker null inside an array of numbers (extractSamples, before the
\* fill); it is not a number
Null == <<0, -1>>

\* the array whose element at position p is f[p] (a function over 1..n as
\* an explicit sequence)
MkArray(f) == f \o <<>>

\* arr[i] used in arithmetic: an index outside the array reads undefined,
\* which arithmetic turns into NaN
At(arr, i) == IF i + 1 \in DOMAIN arr THEN arr[i + 1] ELSE NaN

Max(a, b) == IF a > b THEN a ELSE b
Min(a, b) == IF a < b THEN a ELSE b

\* arr.slice(start, end) for 0 <= start, 0 <= end
Slice(arr, start, end) == SubSeq(arr, start + 1, Min(end, Len(arr)))

\* arr.reduce((sum, val) => sum + val, 0)
RECURSIVE SumFrom(_, _)
SumFrom(arr, sum) ==
  IF arr = <<>> THEN sum ELSE SumFrom(Tail(arr), Add(sum, Head(arr)))

\* ------------------------------------------------------------------------
\* Utility functions (src/js/app.js, "Utility Functions")
\* ------------------------------------------------------------------------
\* the mean with the empty array given the mean 0
meanOrZero(arr) ==
  IF arr = <<>> THEN Zero ELSE Div(SumFrom(arr, Zero), Int2Num(Len(arr)))

mean(arr) == Div(SumFrom(arr, Zero), Int2Num(Len(arr)))

\* the moving average with the end of its window one index short
movingAverageShortWindow(arr, windowSize) ==
  LET halfWindow == windowSize \div 2
  IN  MkArray([p \in 1..Len(arr) |->
         LET i == p - 1
             start == Max(0, i - halfWindow)
             end == Min(Len(arr), i + halfWindow)
         IN  mean(Slice(arr, start, end))])

\* the moving average of windowSize points, the odd sizes centred: an even
\* size loses the last point of the window
movingAverageExactSize(arr, windowSize) ==
  LET halfWindow == windowSize \div 2
  IN  MkArray([p \in 1..Len(arr) |->
         LET i == p - 1
             start == Max(0, i - halfWindow)
             end == Min(Len(arr), i - halfWindow + windowSize)
         IN  mean(Slice(arr, start, end))])

movingAverage(arr, windowSize) ==
  LET halfWindow == windowSize \div 2
  IN  MkArray([p \in 1..Len(arr) |->
         LET i == p - 1
             start == Max(0, i - halfWindow)
             end == Min(Len(arr), i + halfWindow + 1)
         IN  mean(Slice(arr, start, end))])

\* the derivative with a forward difference at the interior points
calculateDerivativeForward(xValues, yValues) ==
  MkArray([p \in 1..Len(xValues) |->
     LET i == p - 1
     IN  IF i = Len(xValues) - 1 /\ i > 0
         THEN Div(Sub(At(yValues, i), At(yValues, i - 1)),
                  Sub(At(xValues, i), At(xValues, i - 1)))
         ELSE Div(Sub(At(yValues, i + 1), At(yValues, i)),
                  Sub(At(xValues, i + 1), At(xValues, i)))])

calculateDerivative(xValues, yValues) ==
  MkArray([p \in 1..Len(xValues) |->
     LET i == p - 1
     IN  IF i = 0
         THEN Div(Sub(At(yValues, 1), At(yValues, 0)),
                  Sub(At(xValues, 1), At(xValues, 0)))
         ELSE IF i = Len(xValues) - 1
         THEN Div(Sub(At(yValues, i), At(yValues, i - 1)),
                  Sub(At(xValues, i), At(xValues, i - 1)))
         ELSE Div(Sub(At(yValues, i + 1), At(yValues, i - 1)),
                  Sub(At(xValues, i + 1), At(xValues, i - 1)))])

\* the normalization with its result clipped to [0, 1]
normalizeArrayClamped(arr, preStart, preEnd, postStart, postEnd) ==
  LET preMeltAvg == mean(Slice(arr, preStart, preEnd))
      postMeltAvg == mean(Slice(arr, postStart, postEnd))
      Clamp(x) == IF Gt(Zero, x) THEN Zero ELSE IF Gt(x, One) THEN One ELSE x
  IN  MkArray([p \in 1..Len(arr) |->
         Clamp(Div(Sub(arr[p], postMeltAvg), Sub(preMeltAvg, postMeltAvg)))])

normalizeArray(arr, preStart, preEnd, postStart, postEnd) ==
  LET preMeltAvg == mean(Slice(arr, preStart, preEnd))
      postMeltAvg == mean(Slice(arr, postStart, postEnd))
  IN  MkArray([p \in 1..Len(arr) |->
         Div(Sub(arr[p], postMeltAvg), Sub(preMeltAvg, postMeltAvg))])

\* the regions with the two products rounded up instead of down
detectMeltRegionsCeil(temperatures, fluorescence) ==
  [preStart |-> 0,
   preEnd |-> (Len(temperatures) + 9) \div 10,
   postStart |-> (9 * Len(temperatures) + 9) \div 10,
   postEnd |-> Len(temperatures)]

detectMeltRegions(temperatures, fluorescence) ==
  [preStart |-> 0,
   preEnd |-> FloorTenth(Len(temperatures)),
   postStart |-> FloorNineTenths(Len(temperatures)),
   postEnd |-> Len(temperatures)]

\* the loop of findTm from index i on: the index it ends on
RECURSIVE TmScan(_, _, _, _)
TmScan(derivative, i, maxDeriv, maxDerivIdx) ==
  IF i >= Len(derivative) THEN maxDerivIdx
  ELSE IF Gt(MathAbs(At(derivative, i)), MathAbs(maxDeriv))
       THEN TmScan(derivative, i + 1, At(derivative, i), i)
       ELSE TmScan(derivative, i + 1, maxDeriv, maxDerivIdx)

findTm(temperatures, derivative) ==
  At(temperatures, TmScan(derivative, 1, At(derivative, 0), 0))

\* ------------------------------------------------------------------------
\* DataProcessor: extraction
\* ------------------------------------------------------------------------
\* row[key]
Field(row, key) == IF key \in DOMAIN row THEN row[key] ELSE JSUndefined

\* arr.find(v => v !== null) || 0
RECURSIVE FirstNonNullOr0(_)
FirstNonNullOr0(arr) ==
  IF arr = <<>> THEN Zero
  ELSE IF Head(arr) # Null
       THEN (IF isNaN(Head(arr)) THEN Zero ELSE Head(arr))
       ELSE FirstNonNullOr0(Tail(arr))

\* arr.map(v => { if (v === null) return last; last = v; return v; })
RECURSIVE FillWith(_, _)
FillWith(arr, last) ==
  IF arr = <<>> THEN <<>>
  ELSE IF Head(arr) = Null
       THEN <<last>> \o FillWith(Tail(arr), last)
       ELSE <<Head(arr)>> \o FillWith(Tail(arr), Head(arr))

Reverse(arr) == MkArray([p \in 1..Len(arr) |-> arr[Len(arr) + 1 - p]])

\* the fill with lastVal starting at 0 instead of the first value found
fillMissingValuesFromZero(arr) ==
  LET forwardFilled == FillWith(arr, Zero)
      nextVal == FirstNonNullOr0(Reverse(forwardFilled))
  IN  Reverse(FillWith(Reverse(forwardFilled), nextVal))

fillMissingValues(arr) ==
  LET forwardFilled == FillWith(arr, FirstNonNullOr0(arr))
      nextVal == FirstNonNullOr0(Reverse(forwardFilled))
  IN  Reverse(FillWith(Reverse(forwardFilled), nextVal))

\* validRows of extractSamples: the rows whose temperature is not NaN
ValidRows(raw) ==
  LET Keep(row) == ~isNaN(parseFloat(Field(row, raw.tempHeader)))
  IN  SelectSeq(raw.data, Keep)

\* the fluorescence column of one header over the valid rows, null where
\* the cell does not parse
Column(validRows, header) ==
  MkArray([p \in 1..Len(validRows) |->
     LET val == parseFloat(Field(validRows[p], header))
     IN  IF isNaN(val) THEN Null ELSE val])

\* the gate with >= for >: a column with exactly half of its cells passes
CoverageOkAtHalf(validCount, total) == 2 * validCount >= total

\* coverage > 0.5 with coverage = validCount / temperatures.length
CoverageOk(validCount, total) == 2 * validCount > total

ValidCount(fluorescence) ==
  Cardinality({p \in DOMAIN fluorescence : fluorescence[p] # Null})

\* the headers.forEach of extractSamples, from header position idx on
RECURSIVE ExtractFrom(_, _, _, _)
ExtractFrom(raw, validRows, idx, samples) ==
  IF idx > Len(raw.headers) THEN samples
  ELSE LET header == raw.headers[idx]
           fluorescence == Column(validRows, header)
       IN  IF header = raw.tempHeader
           THEN ExtractFrom(raw, validRows, idx + 1, samples)
           ELSE IF CoverageOk(ValidCount(fluorescence), Len(validRows))
           THEN ExtractFrom(raw, validRows, idx + 1,
                  Append(samples,
                         [name |-> header,
                          fluorescence |-> fillMissingValues(fluorescence),
                          visible |-> TRUE]))
           ELSE ExtractFrom(raw, validRows, idx + 1, samples)

\* extractSamples without its two early returns: a failed extraction still
\* stores what it has
extractSamplesNoReturn(raw, old) ==
  LET validRows == ValidRows(raw)
      temperatures ==
        MkArray([p \in 1..Len(validRows) |->
           parseFloat(Field(validRows[p], raw.tempHeader))])
      samples == ExtractFrom(raw, validRows, 1, <<>>)
  IN  [error |-> IF Len(validRows) = 0
                 THEN "No valid temperature data found"
                 ELSE IF Len(samples) = 0
                 THEN "No valid samples found. Check CSV format."
                 ELSE "none",
       processedData |->
         [temperatures |-> temperatures,
          samples |-> samples,
          normalized |-> JSNull,
          derivative |-> JSNull,
          difference |-> JSNull]]

\* extractSamples: what it reports and what it leaves in processedData
\* (old is the processedData before the call)
extractSamples(raw, old) ==
  LET validRows == ValidRows(raw)
      temperatures ==
        MkArray([p \in 1..Len(validRows) |->
           parseFloat(Field(validRows[p], raw.tempHeader))])
      samples == ExtractFrom(raw, validRows, 1, <<>>)
  IN  IF raw = JSNull
      THEN [error |-> "none", processedData |-> old]
      ELSE IF Len(validRows) = 0
      THEN [error |-> "No valid temperature data found",
            processedData |-> old]
      ELSE IF Len(samples) = 0
      THEN [error |-> "No valid samples found. Check CSV format.",
            processedData |-> old]
      ELSE [error |-> "none",
            processedData |->
              [temperatures |-> temperatures,
               samples |-> samples,
               normalized |-> JSNull,
               derivative |-> JSNull,
               difference |-> JSNull]]

\* ------------------------------------------------------------------------
\* DataProcessor: analysis
\* ------------------------------------------------------------------------
\* { ...obj, key: value }
With(obj, key, value) == [x \in {key} |-> value] @@ obj

\* { ...this.settings, ...settings }
MergeSettings(current, given) == given @@ current

\* step 2 of analyze building each sample anew instead of copying it
NormalizeSamplesRebuilt(samples, regions) ==
  MkArray([p \in 1..Len(samples) |->
     [name |-> samples[p].name,
      fluorescence |-> samples[p].fluorescence,
      visible |-> TRUE,
      normalized |->
        normalizeArray(samples[p].fluorescence, regions.preStart,
                       regions.preEnd, regions.postStart, regions.postEnd)]])

\* step 2 of analyze
NormalizeSamples(samples, regions) ==
  MkArray([p \in 1..Len(samples) |->
     With(samples[p], "normalized",
          normalizeArray(samples[p].fluorescence, regions.preStart,
                         regions.preEnd, regions.postStart, regions.postEnd))])

\* step 3 of analyze
DerivativeSamples(temperatures, normalizedSamples, smoothingWindow) ==
  MkArray([p \in 1..Len(normalizedSamples) |->
     LET sample == normalizedSamples[p]
         smoothed == movingAverage(sample.normalized, smoothingWindow)
         deriv == calculateDerivative(temperatures, smoothed)
         negDeriv == MkArray([q \in 1..Len(deriv) |-> Neg(deriv[q])])
         tm == findTm(temperatures, negDeriv)
     IN  With(With(sample, "derivative", negDeriv), "tm", tm)])

\* this.settings.referenceSample !== null
RefSelected(referenceSample) == referenceSample # JSNull

\* the range test without its lower bound
RefInRangeNoLower(refIdx, length) ==
  /\ ~isNaN(refIdx)
  /\ Gt(Int2Num(length), refIdx)

\* refIdx >= 0 && refIdx < derivativeSamples.length
RefInRange(refIdx, length) ==
  /\ ~isNaN(refIdx)
  /\ ~Gt(Zero, refIdx)
  /\ Gt(Int2Num(length), refIdx)

\* the index the difference stage uses, as an array position; 0 when the
\* stage is passed through
RefPos(referenceSample, length) ==
  LET refIdx == parseInt(referenceSample)
  IN  IF RefSelected(referenceSample) /\ RefInRange(refIdx, length)
      THEN refIdx[1] + 1
      ELSE 0

\* derivativeSamples[refIdx] is undefined: reading .normalized throws
DifferenceThrows(length, referenceSample) ==
  LET refIdx == parseInt(referenceSample)
  IN  /\ RefSelected(referenceSample)
      /\ RefInRange(refIdx, length)
      /\ ~(IsFinite(refIdx) /\ refIdx[1] + 1 \in 1..length)

\* step 4 of analyze with the subtraction the other way round
DifferenceSamplesReversed(derivativeSamples, referenceSample) ==
  LET pos == RefPos(referenceSample, Len(derivativeSamples))
      reference == derivativeSamples[pos].normalized
  IN  IF pos = 0 THEN derivativeSamples
      ELSE MkArray([p \in 1..Len(derivativeSamples) |->
              IF p = pos
              THEN With(derivativeSamples[p], "difference",
                        MkArray([q \in 1..Len(reference) |-> Zero]))
              ELSE With(derivativeSamples[p], "difference",
                        MkArray([q \in 1..Len(derivativeSamples[p].normalized) |->
                           Sub(At(reference, q - 1),
                               derivativeSamples[p].normalized[q])]))])

\* step 4 of analyze
DifferenceSamples(derivativeSamples, referenceSample) ==
  LET pos == RefPos(referenceSample, Len(derivativeSamples))
      reference == derivativeSamples[pos].normalized
  IN  IF pos = 0 THEN derivativeSamples
      ELSE MkArray([p \in 1..Len(derivativeSamples) |->
              IF p = pos
              THEN With(derivativeSamples[p], "difference",
                        MkArray([q \in 1..Len(reference) |-> Zero]))
              ELSE With(derivativeSamples[p], "difference",
                        MkArray([q \in 1..Len(derivativeSamples[p].normalized) |->
                           Sub(derivativeSamples[p].normalized[q],
                               At(reference, q - 1))]))])

\* the samples analyze stores, from the samples it finds
AnalyzeSamples(temperatures, samples, st) ==
  LET regions == detectMeltRegions(temperatures, samples[1].fluorescence)
      normalizedSamples == NormalizeSamples(samples, regions)
      derivativeSamples ==
        DerivativeSamples(temperatures, normalizedSamples, st.smoothingWindow)
  IN  DifferenceSamples(derivativeSamples, st.referenceSample)

\* the try block of analyze throws
AnalyzeThrows(temperatures, samples, st) ==
  DifferenceThrows(Len(samples), st.referenceSample)

\* ------------------------------------------------------------------------
\* Inputs: the readings handed to setData and the settings handed to analyze
\* ------------------------------------------------------------------------
MaxSmallRows == 4
LongRows == 10
MaxWindow == 2

RowCounts == (0..MaxSmallRows) \cup {LongRows, 2 * LongRows}

\* the decimal digits of a natural number
RECURSIVE NatStr(_)
NatStr(n) ==
  IF n < 10 THEN <<Digits[n + 1]>>
  ELSE NatStr(n \div 10) \o <<Digits[(n % 10) + 1]>>

NumCell(n) == JSNum(Int2Num(n))

\* the temperature cell of row i (0-based) under a temperature pattern
TempCell(tp, i) ==
  CASE tp = "ok" -> NumCell(60 + i)
    [] tp = "gap" -> (IF i = 1 THEN JSStr(<<"q">>) ELSE NumCell(60 + i))
    [] tp = "dup" -> (IF i \in {3, 4} THEN NumCell(62) ELSE NumCell(60 + i))
    [] tp = "txt" -> JSStr(NatStr(60 + i) \o <<".", "5", "C">>)
    [] tp = "inf" -> (IF i = 2 THEN JSStr(InfinityWord) ELSE NumCell(60 + i))
    [] OTHER -> JSNull

\* the cell of row i (0-based) of n rows in a column of the given shape
ShapeCell(shape, n, i) ==
  CASE shape = "melt" -> (IF 2 * i < n THEN NumCell(9) ELSE NumCell(1))
    [] shape = "peak" ->
         (IF i = 1 THEN NumCell(11)
          ELSE IF i = n - 2 THEN NumCell(0)
          ELSE IF 2 * i < n THEN NumCell(9) ELSE NumCell(1))
    [] shape = "ramp" -> NumCell(n - i)
    [] shape = "flat" -> NumCell(5)
    [] shape = "wave" ->
         (IF i = 1 THEN NumCell(7)
          ELSE IF i = 3 THEN NumCell(3) ELSE NumCell(5))
    [] shape = "half" ->
         (IF i % 2 = 1 THEN JSNull
          ELSE IF 2 * i < n THEN NumCell(8) ELSE NumCell(2))
    [] shape = "text" ->
         (IF i = 0 THEN JSStr(<<"n", "a">>)
          ELSE IF 2 * i < n THEN JSStr(<<" ", "7", ".", "5">>)
          ELSE JSStr(<<"-", "1", "q">>))
    [] OTHER -> JSStr(<<>>)

ColumnNames == <<"A", "B", "C">>

\* the table PapaParse or the archive parser delivers: n rows, the
\* temperature column first, one column per shape
Reading(n, tp, shapes) ==
  LET headers ==
        <<"Temperature">> \o [c \in 1..Len(shapes) |-> ColumnNames[c]]
      Row(i) ==
        [h \in {headers[c] : c \in 1..Len(headers)} |->
           IF h = "Temperature" THEN TempCell(tp, i)
           ELSE LET c == CHOOSE c \in 1..Len(shapes) : ColumnNames[c] = h
                IN  ShapeCell(shapes[c], n, i)]
  IN  [headers |-> headers,
       tempHeader |-> "Temperature",
       data |-> MkArray([p \in 1..n |-> Row(p - 1)])]

Layouts ==
  { <<"ok", <<"melt", "peak">> >>,
    <<"ok", <<"half", "ramp", "melt">> >>,
    <<"ok", <<"flat", "wave">> >>,
    <<"ok", <<"none", "half">> >>,
    <<"gap", <<"text", "melt">> >>,
    <<"dup", <<"ramp", "peak">> >>,
    <<"txt", <<"peak">> >>,
    <<"inf", <<"melt", "ramp">> >>,
    <<"bad", <<"melt">> >> }

Readings == { Reading(n, l[1], l[2]) : n \in RowCounts, l \in Layouts }

\* the readings of the interleaving specification: a table with no
\* temperature, a table whose columns all fail the coverage gate, and two
\* tables that load
CoreReadings ==
  { Reading(MaxSmallRows, "bad", <<"melt">>),
    Reading(2 * MaxSmallRows, "ok", <<"none", "half">>),
    Reading(LongRows, "ok", <<"melt", "peak">>),
    Reading(MaxSmallRows - 1, "ok", <<"none", "ramp", "wave">>) }

\* values of the reference <select> and of direct callers
ReferenceValues ==
  { JSNull, JSStr(<<"0">>), JSStr(<<"1">>), JSStr(<<"-", "1">>),
    JSStr(<<"q">>), JSNum(Int2Num(2)) }

\* the argument of analyze: runAnalysis passes every key, other callers
\* may pass some or none
FullSettingsArgs ==
  { [normalizationMode |-> "auto", smoothingWindow |-> w,
     referenceSample |-> r] : w \in 1..MaxWindow, r \in ReferenceValues }

\* the arguments of the interleaving specification: a change of the
\* reference alone, or of the smoothing window with the reference cleared
CoreSettingsArgs ==
  { [referenceSample |-> r] : r \in ReferenceValues }
  \cup { [normalizationMode |-> "auto", smoothingWindow |-> MaxWindow,
          referenceSample |-> JSNull] }

SampleIndexes == -1..2

\* ------------------------------------------------------------------------
\* State
\* ------------------------------------------------------------------------
VARIABLES
  rawData,        \* DataProcessor.rawData
  processedData,  \* DataProcessor.processedData
  settings,       \* DataProcessor.settings
  toasts,         \* the toasts the last call showed
  events,         \* the events the last call dispatched on window
  lastCall        \* the last call and what it returned

vars == <<rawData, processedData, settings, toasts, events, lastCall>>

Toast(title, message, type) ==
  [title |-> title, message |-> message, type |-> type]

\* new DataProcessor()
Init ==
  /\ rawData = JSNull
  /\ processedData = JSNull
  /\ settings = [normalizationMode |-> "auto", smoothingWindow |-> 5,
                 referenceSample |-> JSNull]
  /\ toasts = <<>>
  /\ events = <<>>
  /\ lastCall = [op |-> "constructor", ret |-> "undefined"]

\* setData(parsedData)
SetData(parsedData) ==
  LET r == extractSamples(parsedData, processedData)
  IN  /\ rawData' = parsedData
      /\ processedData' = r.processedData
      /\ toasts' = IF r.error = "none" THEN <<>>
                   ELSE <<Toast("Error", r.error, "error")>>
      /\ events' = <<>>
      /\ lastCall' = [op |-> "setData", ret |-> "undefined"]
      /\ UNCHANGED settings

\* analyze(given)
Analyze(given) ==
  IF processedData = JSNull
  THEN /\ toasts' = <<Toast("No data", "Please upload data first", "error")>>
       /\ events' = <<>>
       /\ lastCall' = [op |-> "analyze", ret |-> "null"]
       /\ UNCHANGED <<rawData, processedData, settings>>
  ELSE LET st == MergeSettings(settings, given)
           temperatures == processedData.temperatures
           samples == processedData.samples
       IN  /\ settings' = st
           /\ UNCHANGED rawData
           /\ IF AnalyzeThrows(temperatures, samples, st)
              THEN /\ toasts' = <<Toast("Analysis error", "TypeError", "error")>>
                   /\ events' = <<>>
                   /\ lastCall' = [op |-> "analyze", ret |-> "null"]
                   /\ UNCHANGED processedData
              ELSE /\ processedData' =
                        With(With(processedData, "samples",
                                  AnalyzeSamples(temperatures, samples, st)),
                             "regions",
                             detectMeltRegions(temperatures,
                                               samples[1].fluorescence))
                   /\ toasts' = <<Toast("Analysis complete",
                                        "Data processed successfully",
                                        "success")>>
                   /\ events' = <<"analysisComplete">>
                   /\ lastCall' = [op |-> "analyze", ret |-> "processedData"]

\* processedData.samples[sampleIndex] is a sample
HasSample(sampleIndex) ==
  /\ processedData # JSNull
  /\ sampleIndex + 1 \in DOMAIN processedData.samples

\* toggleSampleVisibility without its guard on the sample: the event is
\* dispatched whatever the index
ToggleSampleVisibilityUnguarded(sampleIndex) ==
  /\ IF processedData # JSNull
     THEN /\ processedData' =
               IF sampleIndex + 1 \in DOMAIN processedData.samples
               THEN [processedData EXCEPT
                       !.samples[sampleIndex + 1].visible = ~@]
               ELSE processedData
          /\ events' = <<"sampleVisibilityChanged">>
     ELSE /\ UNCHANGED processedData
          /\ events' = <<>>
  /\ toasts' = <<>>
  /\ lastCall' = [op |-> "toggleSampleVisibility", ret |-> "undefined"]
  /\ UNCHANGED <<rawData, settings>>

\* toggleSampleVisibility(sampleIndex)
ToggleSampleVisibility(sampleIndex) ==
  /\ IF HasSample(sampleIndex)
     THEN /\ processedData' =
               [processedData EXCEPT
                  !.samples[sampleIndex + 1].visible = ~@]
          /\ events' = <<"sampleVisibilityChanged">>
     ELSE /\ UNCHANGED processedData
          /\ events' = <<>>
  /\ toasts' = <<>>
  /\ lastCall' = [op |-> "toggleSampleVisibility", ret |-> "undefined"]
  /\ UNCHANGED <<rawData, settings>>

\* setSampleVisibility(sampleIndex, visible)
SetSampleVisibility(sampleIndex, visible) ==
  /\ IF HasSample(sampleIndex)
     THEN /\ processedData' =
               [processedData EXCEPT
                  !.samples[sampleIndex + 1].visible = visible]
          /\ events' = <<"sampleVisibilityChanged">>
     ELSE /\ UNCHANGED processedData
          /\ events' = <<>>
  /\ toasts' = <<>>
  /\ lastCall' = [op |-> "setSampleVisibility", ret |-> "undefined"]
  /\ UNCHANGED <<rawData, settings>>

\* setAllSamplesVisibility(visible)
SetAllSamplesVisibility(visible) ==
  /\ IF processedData # JSNull
     THEN /\ processedData' =
               [processedData EXCEPT
                  !.samples = MkArray([p \in 1..Len(@) |->
                                 [@[p] EXCEPT !.visible = visible]])]
          /\ events' = <<"sampleVisibilityChanged">>
     ELSE /\ UNCHANGED processedData
          /\ events' = <<>>
  /\ toasts' = <<>>
  /\ lastCall' = [op |-> "setAllSamplesVisibility", ret |-> "undefined"]
  /\ UNCHANGED <<rawData, settings>>

Next ==
  \/ \E parsedData \in CoreReadings : SetData(parsedData)
  \/ \E given \in CoreSettingsArgs : Analyze(given)
  \/ \E sampleIndex \in SampleIndexes : ToggleSampleVisibility(sampleIndex)
  \/ \E sampleIndex \in SampleIndexes, visible \in BOOLEAN :
       SetSampleVisibility(sampleIndex, visible)
  \/ \E visible \in BOOLEAN : SetAllSamplesVisibility(visible)

Spec == Init /\ [][Next]_vars

\* One file: a processor that is handed a single reading, of any of the
\* Readings, and is then analysed any number of times
LoadFile(parsedData) == rawData = JSNull /\ SetData(parsedData)

RunAnalysis(given) == rawData # JSNull /\ Analyze(given)

NextOneFile ==
  \/ \E parsedData \in Readings : LoadFile(parsedData)
  \/ \E given \in FullSettingsArgs : RunAnalysis(given)

SpecOneFile == Init /\ [][NextOneFile]_vars

\* ------------------------------------------------------------------------
\* HRMAnalyzer: the reference options
\* ------------------------------------------------------------------------
\* populateReferenceSamples(data): the options appended to the select after
\* its placeholder, in order; value is the text the option's value reads as
populateReferenceSamples(data) ==
  MkArray([idx \in 1..(Len(data.headers) - 1) |->
     [value |-> NatStr(idx - 1), textContent |-> data.headers[idx + 1]]])

\* ------------------------------------------------------------------------
\* DataProcessor: export
\* ------------------------------------------------------------------------
\* the marker undefined inside a row of numbers (an index outside an array)
Undefined == <<0, -2>>

\* arr[i] stored as it is
Elem(arr, i) == IF i + 1 \in DOMAIN arr THEN arr[i + 1] ELSE Undefined

\* if (sample.<key>): an array is truthy, a missing key is undefined
Truthy(sample, key) == key \in DOMAIN sample

\* the header cells one sample adds
SampleHeaders(sample) ==
  <<sample.name \o "_Raw">>
  \o (IF Truthy(sample, "normalized")
      THEN <<sample.name \o "_Normalized">> ELSE <<>>)
  \o (IF Truthy(sample, "derivative")
      THEN <<sample.name \o "_Derivative">> ELSE <<>>)
  \o (IF Truthy(sample, "difference")
      THEN <<sample.name \o "_Difference">> ELSE <<>>)

\* the cells one sample adds to the row of index i
SampleCells(sample, i) ==
  <<Elem(sample.fluorescence, i)>>
  \o (IF Truthy(sample, "normalized")
      THEN <<Elem(sample.normalized, i)>> ELSE <<>>)
  \o (IF Truthy(sample, "derivative")
      THEN <<Elem(sample.derivative, i)>> ELSE <<>>)
  \o (IF Truthy(sample, "difference")
      THEN <<Elem(sample.difference, i)>> ELSE <<>>)

\* the cells of SampleCells with the difference cell left out
SampleCellsNoDifference(sample, i) ==
  <<Elem(sample.fluorescence, i)>>
  \o (IF Truthy(sample, "normalized")
      THEN <<Elem(sample.normalized, i)>> ELSE <<>>)
  \o (IF Truthy(sample, "derivative")
      THEN <<Elem(sample.derivative, i)>> ELSE <<>>)

\* samples.forEach(sample => row.push(...)) from sample position p on
RECURSIVE PushHeaders(_, _, _)
PushHeaders(samples, p, row) ==
  IF p > Len(samples) THEN row
  ELSE PushHeaders(samples, p + 1, row \o SampleHeaders(samples[p]))

RECURSIVE PushCells(_, _, _, _)
PushCells(samples, i, p, row) ==
  IF p > Len(samples) THEN row
  ELSE PushCells(samples, i, p + 1, row \o SampleCells(samples[p], i))

RECURSIVE PushCellsNoDifference(_, _, _, _)
PushCellsNoDifference(samples, i, p, row) ==
  IF p > Len(samples) THEN row
  ELSE PushCellsNoDifference(samples, i, p + 1,
                             row \o SampleCellsNoDifference(samples[p], i))

\* exportProcessedData with the difference cell of the data rows forgotten
exportProcessedDataNoDifferenceCell(pd) ==
  IF pd = JSNull THEN JSNull
  ELSE <<PushHeaders(pd.samples, 1, <<"Temperature">>)>>
       \o MkArray([r \in 1..Len(pd.temperatures) |->
             PushCellsNoDifference(pd.samples, r - 1, 1,
                                   <<pd.temperatures[r]>>)])

\* exportProcessedData() on a processor whose processedData is pd
exportProcessedData(pd) ==
  IF pd = JSNull THEN JSNull
  ELSE <<PushHeaders(pd.samples, 1, <<"Temperature">>)>>
       \o MkArray([r \in 1..Len(pd.temperatures) |->
             PushCells(pd.samples, r - 1, 1, <<pd.temperatures[r]>>)])

\* a call of exportProcessedData()
ExportProcessedData ==
  LET exportData == exportProcessedData(processedData)
  IN  /\ lastCall' = IF processedData = JSNull
                     THEN [op |-> "exportProcessedData", ret |-> "null"]
                     ELSE [op |-> "exportProcessedData", ret |-> "exportData",
                           exportData |-> exportData]
      /\ toasts' = <<>>
      /\ events' = <<>>
      /\ UNCHANGED <<rawData, processedData, settings>>

\* One file that is analysed and exported any number of times
NextExport ==
  \/ \E parsedData \in Readings : LoadFile(parsedData)
  \/ \E given \in FullSettingsArgs : RunAnalysis(given)
  \/ ExportProcessedData

SpecExport == Init /\ [][NextExport]_vars

\* ------------------------------------------------------------------------
\* EDSParser (src/unnamed/part_000): the text of the melt curve entry is a
\* sequence of characters; names and messages are strings
\* ------------------------------------------------------------------------
\* the string with the characters of s
RECURSIVE Str(_)
Str(s) == IF s = <<>> THEN "" ELSE s[1] \o Str(Tail(s))

\* line.startsWith(word)
startsWith(line, word) ==
  Len(line) >= Len(word) /\ SubSeq(line, 1, Len(word)) = word

\* the first position >= from of character c in s, 0 when there is none
RECURSIVE Find(_, _, _)
Find(s, c, from) ==
  IF from > Len(s) THEN 0
  ELSE IF s[from] = c THEN from ELSE Find(s, c, from + 1)

\* s.split(c)
RECURSIVE split(_, _)
split(s, c) ==
  LET k == Find(s, c, 1)
  IN  IF k = 0 THEN <<s>>
      ELSE <<SubSeq(s, 1, k - 1)>> \o split(Drop(s, k), c)

\* text.replace(/\r\n/g, '\n').replace(/\r/g, '\n'): the line feed of a
\* pair \r\n goes, and every carriage return becomes a line feed
NormalizeLineEndings(s) ==
  LET Kept(i) == ~(s[i] = "\n" /\ i > 1 /\ s[i - 1] = "\r")
      kept == SelectSeq(MkArray([i \in 1..Len(s) |-> i]), Kept)
  IN  MkArray([p \in 1..Len(kept) |->
         IF s[kept[p]] = "\r" THEN "\n" ELSE s[kept[p]]])

WhiteSpace == {" ", "\t", "\n", "\r"}

\* s.trim()
RECURSIVE trim(_)
trim(s) ==
  IF s = <<>> THEN s
  ELSE IF s[1] \in WhiteSpace THEN trim(Tail(s))
  ELSE IF s[Len(s)] \in WhiteSpace THEN trim(SubSeq(s, 1, Len(s) - 1))
  ELSE s

SessionNameWord ==
  <<"S", "e", "s", "s", "i", "o", "n", " ", "N", "a", "m", "e">>

WellTabWord ==
  <<"W", "e", "l", "l", "\t">>

SampleTemperaturesWord ==
  <<"S", "a", "m", "p", "l", "e", " ", "T", "e", "m", "p", "e", "r", "a",
  "t", "u", "r", "e", "s", "\t">>

RnValuesWord ==
  <<"R", "n", " ", "v", "a", "l", "u", "e", "s", "\t">>

DeltaRnSampleTemperaturesWord ==
  <<"D", "e", "l", "t", "a", " ", "R", "n", " ", "S", "a", "m", "p", "l",
  "e", " ", "T", "e", "m", "p", "e", "r", "a", "t", "u", "r", "e", "s",
  "\t">>

DeltaRnValuesWord ==
  <<"D", "e", "l", "t", "a", " ", "R", "n", " ", "v", "a", "l", "u", "e",
  "s", "\t">>

\* line.match(/^(\d+)\t([^\t]+)\t([^\t]+)\t([^\t]+)\t(.*)$/): the five
\* groups, or <<>> when the line does not match (no character of a line is
\* a line terminator, so .* takes the rest)
SampleMatch(line) ==
  LET d == ScanDigits(line, 0, 0)[2]
      t1 == d + 1
      t2 == Find(line, "\t", t1 + 1)
      t3 == IF t2 = 0 THEN 0 ELSE Find(line, "\t", t2 + 1)
      t4 == IF t3 = 0 THEN 0 ELSE Find(line, "\t", t3 + 1)
  IN  IF /\ d >= 1
         /\ Len(line) >= t1 /\ line[t1] = "\t"
         /\ t2 > t1 + 1
         /\ t3 > t2 + 1
         /\ t4 > t3 + 1
      THEN <<SubSeq(line, 1, d),
             SubSeq(line, t1 + 1, t2 - 1),
             SubSeq(line, t2 + 1, t3 - 1),
             SubSeq(line, t3 + 1, t4 - 1),
             Drop(line, t4)>>
      ELSE <<>>

\* the loop of parseTabValues from part p on
RECURSIVE PushValues(_, _, _)
PushValues(parts, p, values) ==
  IF p > Len(parts) THEN values
  ELSE LET trimmed == trim(parts[p])
           num == ParseFloatStr(trimmed)
       IN  IF trimmed = <<>> \/ isNaN(num)
           THEN PushValues(parts, p + 1, values)
           ELSE PushValues(parts, p + 1, Append(values, num))

parseTabValues(str) == PushValues(split(str, "\t"), 1, <<>>)

\* the object the scan opens on a record line
NewSample(sampleMatch) ==
  [wellNumber |-> ParseIntStr(sampleMatch[1]),
   sampleName |-> Str(sampleMatch[2]),
   detector |-> Str(sampleMatch[3]),
   task |-> Str(sampleMatch[4]),
   tmValues |-> Str(sampleMatch[5]),
   temperatures |-> <<>>,
   rnValues |-> <<>>,
   deltaRnTemperatures |-> <<>>,
   deltaRnValues |-> <<>>]

\* the first loop of parseMeltCurveResult: the index of the first line that
\* is no header line
RECURSIVE SkipHeaderLines(_, _)
SkipHeaderLines(lines, lineIndex) ==
  IF lineIndex < Len(lines)
     /\ (startsWith(lines[lineIndex + 1], SessionNameWord)
         \/ startsWith(lines[lineIndex + 1], WellTabWord))
  THEN SkipHeaderLines(lines, lineIndex + 1)
  ELSE lineIndex

\* the test of the push without its condition on the temperatures
HasTemperaturesAlways(currentSample) == currentSample # JSNull

\* currentSample && currentSample.temperatures.length > 0
HasTemperatures(currentSample) ==
  currentSample # JSNull /\ Len(currentSample.temperatures) > 0

\* the second loop of parseMeltCurveResult from lineIndex on, and the push
\* after it: the samples it collects
RECURSIVE ScanLines(_, _, _, _)
ScanLines(lines, lineIndex, currentSample, samples) ==
  IF lineIndex >= Len(lines)
  THEN (IF HasTemperatures(currentSample)
        THEN Append(samples, currentSample) ELSE samples)
  ELSE LET line == lines[lineIndex + 1]
           sampleMatch == SampleMatch(line)
           Rest(word) == parseTabValues(Drop(line, Len(word)))
       IN  IF trim(line) = <<>>
           THEN ScanLines(lines, lineIndex + 1, currentSample, samples)
           ELSE IF sampleMatch # <<>>
           THEN ScanLines(lines, lineIndex + 1, NewSample(sampleMatch),
                          IF HasTemperatures(currentSample)
                          THEN Append(samples, currentSample) ELSE samples)
           ELSE IF startsWith(line, SampleTemperaturesWord)
                   /\ currentSample # JSNull
           THEN ScanLines(lines, lineIndex + 1,
                          [currentSample EXCEPT
                             !.temperatures = Rest(SampleTemperaturesWord)],
                          samples)
           ELSE IF startsWith(line, RnValuesWord) /\ currentSample # JSNull
           THEN ScanLines(lines, lineIndex + 1,
                          [currentSample EXCEPT
                             !.rnValues = Rest(RnValuesWord)],
                          samples)
           ELSE IF startsWith(line, DeltaRnSampleTemperaturesWord)
                   /\ currentSample # JSNull
           THEN ScanLines(lines, lineIndex + 1,
                          [currentSample EXCEPT
                             !.deltaRnTemperatures =
                                Rest(DeltaRnSampleTemperaturesWord)],
                          samples)
           ELSE IF startsWith(line, DeltaRnValuesWord)
                   /\ currentSample # JSNull
           THEN ScanLines(lines, lineIndex + 1,
                          [currentSample EXCEPT
                             !.deltaRnValues = Rest(DeltaRnValuesWord)],
                          samples)
           ELSE ScanLines(lines, lineIndex + 1, currentSample, samples)

\* the decimal text of a number that is a natural number
NumberText(x) == Str(NatStr(x[1]))

\* s.sampleName || `Well_${s.wellNumber + 1}`
DefaultedName(s) ==
  IF s.sampleName # "" THEN s.sampleName
  ELSE "Well_" \o NumberText(Add(s.wellNumber, One))

\* the first forEach of formatForHRMAnalyzer from sample position p on
\* (idx = p - 1): the headers
RECURSIVE UniqueHeaders(_, _, _, _)
UniqueHeaders(samples, p, usedNames, headers) ==
  IF p > Len(samples) THEN headers
  ELSE LET name == DefaultedName(samples[p])
           unique == IF name \in usedNames
                     THEN name \o "_" \o Str(NatStr(p))
                     ELSE name
       IN  UniqueHeaders(samples, p + 1, usedNames \cup {unique},
                         Append(headers, unique))

\* s.rnValues[i] !== undefined ? s.rnValues[i] : null, as a table cell
RnCell(s, i) ==
  IF i + 1 \in DOMAIN s.rnValues THEN JSNum(s.rnValues[i + 1]) ELSE JSNull

\* the second forEach of formatForHRMAnalyzer from sample position p on:
\* the row of index i
RECURSIVE FillRow(_, _, _, _, _)
FillRow(samples, headers, i, p, row) ==
  IF p > Len(samples) THEN row
  ELSE FillRow(samples, headers, i, p + 1,
               With(row, headers[p + 1], RnCell(samples[p], i)))

formatForHRMAnalyzer(samples) ==
  LET refTemps == samples[1].temperatures
      headers == UniqueHeaders(samples, 1, {}, <<"Temperature">>)
  IN  [filename |-> "eds_file",
       headers |-> headers,
       tempHeader |-> "Temperature",
       data |-> MkArray([r \in 1..Len(refTemps) |->
                  FillRow(samples, headers, r - 1, 1,
                          [h \in {"Temperature"} |-> JSNum(refTemps[r])])]),
       sampleCount |-> Len(samples)]

\* what a call hands back: a value, or the message of the Error it throws
Return(value) == [threw |-> FALSE, value |-> value]
Throw(message) == [threw |-> TRUE, message |-> message]

\* the samples parseMeltCurveResult collects from the text
ParsedSamples(meltText) ==
  LET lines == split(NormalizeLineEndings(meltText), "\n")
  IN  ScanLines(lines, SkipHeaderLines(lines, 0), JSNull, <<>>)

parseMeltCurveResult(meltText) ==
  LET samples == ParsedSamples(meltText)
  IN  IF Len(samples) = 0
      THEN Throw("No valid melt curve data found in file")
      ELSE Return(formatForHRMAnalyzer(samples))

\* the entry of the archive the parser reads
MeltEntryName == "apldbio/sds/meltcuve_result.txt"

\* zip.file(name) is an entry (not null)
HasEntry(file, name) == name \in DOMAIN file.entries

\* the text of the entry: zip.file(name).async('text')
EntryText(file, name) == file.entries[name]

\* parseEDSFile falling back to any other entry of the archive when the
\* melt curve entry is absent
parseEDSFileWithFallback(file, libLoads) ==
  IF ~libLoads THEN Throw("Failed to load JSZip")
  ELSE IF ~file.zip
  THEN Throw("Failed to parse .eds file: " \o file.decodeError)
  ELSE IF DOMAIN file.entries = {}
  THEN Throw("Failed to parse .eds file: "
             \o "No HRM/melt curve data found in this .eds file")
  ELSE LET name == IF HasEntry(file, MeltEntryName) THEN MeltEntryName
                   ELSE CHOOSE n \in DOMAIN file.entries : TRUE
           r == parseMeltCurveResult(EntryText(file, name))
       IN  IF r.threw
           THEN Throw("Failed to parse .eds file: " \o r.message)
           ELSE r

\* EDSParser.parseEDSFile(file); libLoads: the JSZip script can be loaded
parseEDSFile(file, libLoads) ==
  IF ~libLoads THEN Throw("Failed to load JSZip")
  ELSE IF ~file.zip
  THEN Throw("Failed to parse .eds file: " \o file.decodeError)
  ELSE IF ~HasEntry(file, MeltEntryName)
  THEN Throw("Failed to parse .eds file: "
             \o "No HRM/melt curve data found in this .eds file")
  ELSE LET r == parseMeltCurveResult(EntryText(file, MeltEntryName))
       IN  IF r.threw
           THEN Throw("Failed to parse .eds file: " \o r.message)
           ELSE r

\* handleFiles with one .eds file: FileHandler.parseEDSFile, the dataLoaded
\* listener (onDataLoaded: setData) on success, the error toast on failure
HandleFiles(file, libLoads) ==
  \E r \in {parseEDSFile(file, libLoads)} :
    IF r.threw
    THEN /\ toasts' = <<Toast("Error", r.message, "error")>>
         /\ events' = <<>>
         /\ lastCall' = [op |-> "parseEDSFile", file |-> file,
                         libLoads |-> libLoads,
                         ret |-> "throws", message |-> r.message]
         /\ UNCHANGED <<rawData, processedData, settings>>
    ELSE \E parsedData \in {With(r.value, "filename", file.name)} :
         \E e \in {extractSamples(parsedData, processedData)} :
           /\ rawData' = parsedData
           /\ processedData' = e.processedData
           /\ toasts' =
                <<Toast("Success",
                        "Loaded " \o file.name \o " with "
                          \o Str(NatStr(parsedData.sampleCount))
                          \o " samples from .eds file",
                        "success")>>
                \o (IF e.error = "none" THEN <<>>
                    ELSE <<Toast("Error", e.error, "error")>>)
           /\ events' = <<"dataLoaded">>
           /\ lastCall' = [op |-> "parseEDSFile", file |-> file,
                           libLoads |-> libLoads,
                           ret |-> "parsedData", parsedData |-> parsedData]
           /\ UNCHANGED settings

\* ------------------------------------------------------------------------
\* Inputs of the parser: archives and the text of their melt curve entry
\* ------------------------------------------------------------------------
MaxRecords == 3
MaxPoints == 2

Tab == <<"\t">>

\* the parts joined by sep
RECURSIVE Join(_, _)
Join(parts, sep) ==
  IF parts = <<>> THEN <<>>
  ELSE IF Len(parts) = 1 THEN parts[1]
  ELSE parts[1] \o sep \o Join(Tail(parts), sep)

\* a record line: well number, sample name, detector, task, Tm values
RecordLine(well, name) ==
  Join(<<NatStr(well), name, <<"D">>, <<"U">>, <<"7", "1">> >>, Tab)

\* n values from first on, as text
Values(first, n) == MkArray([p \in 1..n |-> NatStr(first + p - 1)])

\* the lines of the j-th record block of a text, by kind
RecordBlock(kind, j) ==
  LET temps == SampleTemperaturesWord \o Join(Values(60 + 10 * j, MaxPoints), Tab)
      rn == RnValuesWord \o Join(Values(10 * j, MaxPoints), Tab)
  IN  CASE kind = "A" ->
             <<RecordLine(j - 1, <<"A">>), temps, rn,
               DeltaRnSampleTemperaturesWord \o Join(Values(50, MaxPoints), Tab),
               DeltaRnValuesWord \o Join(Values(5, MaxPoints), Tab)>>
        [] kind = "A_3" ->
             <<RecordLine(j - 1, <<"A", "_", "3">>),
               DeltaRnValuesWord \o Join(Values(5, MaxPoints), Tab),
               rn, <<"n", "o", "t", "e">>, temps>>
        [] kind = "Temperature" ->
             <<RecordLine(j - 1,
                          <<"T", "e", "m", "p", "e", "r", "a", "t", "u", "r", "e">>),
               temps, rn>>
        [] kind = "unnamed" ->
             <<RecordLine(j - 1, <<>>), temps, rn>>
        [] kind = "short" ->
             <<RecordLine(j - 1, <<"B">>),
               SampleTemperaturesWord
                 \o Join(Values(60 + 10 * j, MaxPoints + 1), Tab),
               <<" ", "\t">>,
               RnValuesWord
                 \o Join(<<<<"x">>, <<" ", "9", ".", "5", " ">>, <<>>>>
                         \o Values(10 * j, MaxPoints - 1), Tab)>>
        [] kind = "reset" ->
             <<RecordLine(j - 1, <<"C">>), temps, rn,
               SampleTemperaturesWord \o <<"-">> >>
        [] kind = "long" ->
             <<RecordLine(j - 1, <<"A">>),
               SampleTemperaturesWord
                 \o Join(Values(60 + 10 * j, MaxPoints + 1), Tab),
               RnValuesWord \o Join(Values(10 * j, MaxPoints + 1), Tab)>>
        [] OTHER ->
             <<RecordLine(j - 1, <<"B">>), rn>>

RecordKinds ==
  {"A", "A_3", "Temperature", "unnamed", "short", "reset", "long", "bare"}

\* the sequences of at most MaxRecords record kinds
KindSeqs ==
  UNION { [1..n -> RecordKinds] : n \in 0..MaxRecords }

HeaderLines ==
  <<SessionNameWord \o <<"\t", "r", "u", "n">>,
    WellTabWord \o <<"N", "a", "m", "e">> >>

\* the lines of all blocks from block j on
RECURSIVE BlockLines(_, _)
BlockLines(kinds, j) ==
  IF j > Len(kinds) THEN <<>>
  ELSE RecordBlock(kinds[j], j) \o BlockLines(kinds, j + 1)

\* a format: the line terminator, and whether the two header lines are there
PlainFormat == <<<<"\n">>, FALSE>>

Formats == { <<<<"\n">>, TRUE>>, <<<<"\r", "\n">>, TRUE>>, <<<<"\r">>, FALSE>> }

\* the text of a melt curve entry
MeltText(kinds, format) ==
  Join((IF format[2] THEN HeaderLines ELSE <<>>) \o BlockLines(kinds, 1),
       format[1])
  \o format[1]

\* the record sequences that are written in every format
FormatKindSeqs ==
  { <<>>, <<"A">>, <<"short", "A">>, <<"unnamed", "A_3">>,
    <<"reset", "Temperature", "bare">> }

\* a .eds file that is a ZIP archive with the given entries
Archive(entries) == [name |-> "run.eds", zip |-> TRUE, entries |-> entries]

\* a .eds file that is no ZIP archive
NoArchive ==
  [name |-> "run.eds", zip |-> FALSE,
   decodeError |-> "Can't find end of central directory : is this a zip file ?"]

\* the entry names of the archives that lack the melt curve entry
OtherEntryNames ==
  { {},
    {"apldbio/sds/meltcurve_result.txt"},
    {"apldbio/sds/multicomponentdata.xml", "meltcuve_result.txt"} }

\* what is dropped on the page: no archive, an archive without the entry
\* (its other entries hold a well-formed text), or an archive whose entry
\* holds every record sequence in the plain format and some in the others
FileDescriptions ==
  { [is |-> "no archive"] }
  \cup { [is |-> "other entries", names |-> names] : names \in OtherEntryNames }
  \cup { [is |-> "melt curve", kinds |-> kinds, format |-> PlainFormat] :
            kinds \in KindSeqs }
  \cup { [is |-> "melt curve", kinds |-> kinds, format |-> format] :
            kinds \in FormatKindSeqs, format \in Formats }

\* the file of a description
EdsFile(d) ==
  CASE d.is = "no archive" -> NoArchive
    [] d.is = "other entries" ->
         Archive([n \in d.names |-> MeltText(<<"A", "short">>, PlainFormat)])
    [] d.is = "melt curve" ->
         Archive([n \in {MeltEntryName} |-> MeltText(d.kinds, d.format)])

\* no call has been made on the page yet
FreshPage == lastCall.op = "constructor"

\* One .eds file dropped on a fresh page
NextParser ==
  /\ FreshPage
  /\ \E d \in FileDescriptions, libLoads \in BOOLEAN :
       \E file \in {EdsFile(d)} : HandleFiles(file, libLoads)

SpecParser == Init /\ [][NextParser]_vars

\* ------------------------------------------------------------------------
\* fillMissingValues called on its own
\* ------------------------------------------------------------------------
MaxFillLen == 4

\* what a fluorescence column holds before the fill: numbers and null
FillValues == {Null, Zero, Int2Num(7)}

FillVectors == UNION { [1..n -> FillValues] : n \in 0..MaxFillLen }

\* a call of fillMissingValues(arr)
FillMissingValues(arr) ==
  /\ lastCall' = [op |-> "fillMissingValues", arr |-> arr,
                  ret |-> "array", array |-> fillMissingValues(arr)]
  /\ toasts' = <<>>
  /\ events' = <<>>
  /\ UNCHANGED <<rawData, processedData, settings>>

NextFill == \E arr \in FillVectors : FillMissingValues(arr)

SpecFill == Init /\ [][NextFill]_vars

\* ------------------------------------------------------------------------
\* The utility functions called on their own
\* ------------------------------------------------------------------------
MaxVectorLen == 5
MaxSmoothing == 5
MaxCurveLen == 3

\* the vectors handed to movingAverage
SmoothingValues == {Zero, One, Int2Num(4)}

SmoothingVectors == UNION { [1..n -> SmoothingValues] : n \in 0..MaxVectorLen }

\* the x and y values of the curves handed to calculateDerivative: x may
\* repeat or go down, y = 2x + 1 is among the curves
CurveXValues == {Zero, One, Int2Num(3)}

CurveYValues == {One, Int2Num(3), Int2Num(7)}

Curves ==
  UNION { [1..n -> CurveXValues] \X [1..n -> CurveYValues] : n \in 0..MaxCurveLen }

\* a call of movingAverage(arr, windowSize)
MovingAverage(arr, windowSize) ==
  /\ lastCall' = [op |-> "movingAverage", arr |-> arr,
                  windowSize |-> windowSize,
                  ret |-> "array", array |-> movingAverage(arr, windowSize)]
  /\ toasts' = <<>>
  /\ events' = <<>>
  /\ UNCHANGED <<rawData, processedData, settings>>

\* a call of calculateDerivative(xValues, yValues)
CalculateDerivative(xValues, yValues) ==
  /\ lastCall' = [op |-> "calculateDerivative", xValues |-> xValues,
                  yValues |-> yValues,
                  ret |-> "array",
                  array |-> calculateDerivative(xValues, yValues)]
  /\ toasts' = <<>>
  /\ events' = <<>>
  /\ UNCHANGED <<rawData, processedData, settings>>

\* step 3 of analyze on one normalized sample: the callback of
\* normalizedSamples.map
DerivativeStep(temperatures, normalized, smoothingWindow) ==
  /\ lastCall' =
       [op |-> "derivativeSamples", temperatures |-> temperatures,
        normalized |-> normalized, smoothingWindow |-> smoothingWindow,
        ret |-> "sample",
        sample |-> DerivativeSamples(temperatures,
                                     <<[normalized |-> normalized]>>,
                                     smoothingWindow)[1]]
  /\ toasts' = <<>>
  /\ events' = <<>>
  /\ UNCHANGED <<rawData, processedData, settings>>

\* One call of a utility function on a fresh page
NextUtilities ==
  /\ FreshPage
  /\ \/ \E arr \in SmoothingVectors, windowSize \in 1..MaxSmoothing :
          MovingAverage(arr, windowSize)
     \/ \E curve \in Curves : CalculateDerivative(curve[1], curve[2])
     \/ \E curve \in Curves, smoothingWindow \in 1..MaxWindow :
          DerivativeStep(curve[1], curve[2], smoothingWindow)

SpecUtilities == Init /\ [][NextUtilities]_vars

\* ------------------------------------------------------------------------
\* Properties
\* ------------------------------------------------------------------------
Loaded == processedData # JSNull

\* the last call was a setData that stored a result
SetDataSucceeded == lastCall.op = "setData" /\ toasts = <<>> /\ Loaded

\* the last call was an analyze that returned the result
AnalyzeSucceeded == lastCall.op = "analyze" /\ lastCall.ret = "processedData"

\* an error toast was shown by the last call
ErrorReported == \E p \in DOMAIN toasts : toasts[p].type = "error"

Has(sample, key) == key \in DOMAIN sample

\* the positions of the rows of a reading whose temperature parses
ValidPositions(raw) ==
  { p \in DOMAIN raw.data :
      ~isNaN(parseFloat(Field(raw.data[p], raw.tempHeader))) }

\* the number of cells of a column that parse, over the valid rows
ParsedCells(raw, header) ==
  Cardinality({ p \in ValidPositions(raw) :
                  ~isNaN(parseFloat(Field(raw.data[p], header))) })

\* a column passes the gate: more than half of its cells parse
PassesGate(raw, header) ==
  2 * ParsedCells(raw, header) > Cardinality(ValidPositions(raw))

NoValidRow(raw) == ValidPositions(raw) = {}

EveryColumnFails(raw) ==
  \A c \in DOMAIN raw.headers :
    raw.headers[c] # raw.tempHeader => ~PassesGate(raw, raw.headers[c])

\* a sample as extraction creates it
Bare(sample) ==
  [name |-> sample.name, fluorescence |-> sample.fluorescence,
   visible |-> sample.visible]

\* C1: after an analyze that returned a result, every sample is exactly
\* what the pipeline computes from its raw fluorescence under the settings
\* of that run, and when that run had no reference, or one out of range, no
\* sample carries a difference curve.
C1_ReanalyzeReplacesResult ==
  AnalyzeSucceeded =>
    LET samples == processedData.samples
        fresh == MkArray([p \in 1..Len(samples) |-> Bare(samples[p])])
    IN  /\ samples =
             AnalyzeSamples(processedData.temperatures, fresh, settings)
        /\ RefPos(settings.referenceSample, Len(samples)) = 0 =>
             \A p \in DOMAIN samples : ~Has(samples[p], "difference")

\* C2: a setData whose reading has no row with a temperature that parses,
\* or whose columns all fail the coverage gate, reports an error and stores
\* nothing: processedData is what it was before the call.
C2_FailedLoadStoresNothing ==
  [][ (lastCall'.op = "setData"
       /\ (NoValidRow(rawData') \/ EveryColumnFails(rawData')))
      => (processedData' = processedData /\ ErrorReported') ]_vars

\* C2 witness: a reading with valid rows whose columns all fail was handed
\* to a processor that holds an earlier result
C2_Witness ==
  /\ lastCall.op = "setData"
  /\ ~NoValidRow(rawData)
  /\ EveryColumnFails(rawData)
  /\ ErrorReported
  /\ Loaded

\* the headers, in order, that are not the temperature header and pass
\* the gate
RECURSIVE GatedHeaders(_, _)
GatedHeaders(raw, c) ==
  IF c > Len(raw.headers) THEN <<>>
  ELSE IF raw.headers[c] # raw.tempHeader /\ PassesGate(raw, raw.headers[c])
       THEN <<raw.headers[c]>> \o GatedHeaders(raw, c + 1)
       ELSE GatedHeaders(raw, c + 1)

SampleNames == MkArray([p \in 1..Len(processedData.samples) |->
                          processedData.samples[p].name])

C4_LengthsAndRegions ==
  Loaded =>
    LET N == Len(processedData.temperatures)
    IN  /\ N >= 1
        /\ \A p \in DOMAIN processedData.samples :
             Len(processedData.samples[p].fluorescence) = N
        /\ Has(processedData, "regions") =>
             LET r == processedData.regions
             IN  /\ r.preStart = 0
                 /\ 10 * r.preEnd <= N /\ N < 10 * (r.preEnd + 1)
                 /\ 10 * r.postStart <= 9 * N
                 /\ 9 * N < 10 * (r.postStart + 1)
                 /\ r.postEnd = N
                 /\ 0 <= r.preStart /\ r.preStart <= r.preEnd
                 /\ r.preEnd <= r.postStart /\ r.postStart <= r.postEnd
                 /\ r.postEnd <= N

\* C4 witness: an analysed reading with a non-empty pre-melt window, rows
\* that were dropped, and two samples
C4_Witness ==
  /\ AnalyzeSucceeded
  /\ processedData.regions.preEnd > 0
  /\ Len(processedData.temperatures) < Len(rawData.data)
  /\ Len(processedData.samples) = 2

\* the sum of arr over the 0-based indexes lo..hi-1
RECURSIVE SumOver(_, _, _)
SumOver(arr, lo, hi) ==
  IF lo >= hi THEN Zero ELSE Add(SumOver(arr, lo, hi - 1), arr[hi])

\* the arithmetic mean of arr over the 0-based indexes lo..hi-1
WindowMean(arr, lo, hi) == Div(SumOver(arr, lo, hi), Int2Num(hi - lo))

NumberIndexes(d) == { k \in DOMAIN d : ~isNaN(d[k]) }

\* k is the smallest index of d at which the absolute value is the largest
\* among the numbers of d
FirstMaxAbs(d, k) ==
  /\ k \in NumberIndexes(d)
  /\ \A j \in NumberIndexes(d) : ~Gt(MathAbs(d[j]), MathAbs(d[k]))
  /\ \A j \in NumberIndexes(d) : j < k => Gt(MathAbs(d[k]), MathAbs(d[j]))

\* C6: after analyze every sample has one tm, the temperature at the
\* smallest index at which the negated derivative has its maximum absolute
\* value (stated for the vectors that hold a number at all).
C6_TmAtFirstMaxAbs ==
  (Loaded /\ Has(processedData, "regions")) =>
    \A p \in DOMAIN processedData.samples :
      LET sample == processedData.samples[p]
      IN  /\ Has(sample, "derivative")
          /\ Has(sample, "tm")
          /\ NumberIndexes(sample.derivative) # {} =>
               \E k \in DOMAIN sample.derivative :
                 /\ FirstMaxAbs(sample.derivative, k)
                 /\ sample.tm = processedData.temperatures[k]

\* the reference setting names a sample: it is selected and parses to an
\* index of [0, n)
ValidRef(referenceSample, n) ==
  /\ referenceSample # JSNull
  /\ IsFinite(parseInt(referenceSample))
  /\ parseInt(referenceSample)[1] \in 0..(n - 1)

\* the reference setting is selected and names no sample
InvalidRef(referenceSample, n) ==
  /\ referenceSample # JSNull
  /\ ~ValidRef(referenceSample, n)

\* C7: after an analyze with a reference index r in [0, number of samples),
\* sample r has a difference of zeros as long as the temperature axis, and
\* every other sample s has difference[i] = s.normalized[i] -
\* samples[r].normalized[i].
C7_Difference ==
  (AnalyzeSucceeded
   /\ ValidRef(settings.referenceSample, Len(processedData.samples))) =>
    LET samples == processedData.samples
        r == parseInt(settings.referenceSample)[1] + 1
    IN  \A p \in DOMAIN samples :
          /\ Has(samples[p], "difference")
          /\ Len(samples[p].difference) = Len(processedData.temperatures)
          /\ \A i \in DOMAIN samples[p].difference :
               samples[p].difference[i] =
                 IF p = r THEN Zero
                 ELSE Sub(samples[p].normalized[i], samples[r].normalized[i])

\* C7 witness: an analysis with the second sample as reference in which
\* the first sample differs from it by a number other than 0
C7_Witness ==
  /\ AnalyzeSucceeded
  /\ settings.referenceSample = JSStr(<<"1">>)
  /\ Len(processedData.samples) >= 2
  /\ \E i \in DOMAIN processedData.samples[1].difference :
       LET x == processedData.samples[1].difference[i]
       IN  IsFinite(x) /\ x # Zero

\* C8: an analyze whose reference is negative, not a number or too large
\* returns the result, and the samples it stores are those of the same run
\* with no reference selected, each with normalized, derivative and tm.
C8_OutOfRangeReference ==
  [][ (lastCall'.op = "analyze" /\ Loaded
       /\ InvalidRef(settings'.referenceSample, Len(processedData.samples)))
      => /\ lastCall'.ret = "processedData"
         /\ processedData'.samples =
              AnalyzeSamples(processedData.temperatures,
                             processedData.samples,
                             [settings' EXCEPT !.referenceSample = JSNull])
         /\ \A p \in DOMAIN processedData'.samples :
              /\ Has(processedData'.samples[p], "normalized")
              /\ Has(processedData'.samples[p], "derivative")
              /\ Has(processedData'.samples[p], "tm") ]_vars

\* C8 witness: an analysis with a negative reference returned the result
C8_Witness ==
  /\ AnalyzeSucceeded
  /\ settings.referenceSample = JSStr(<<"-", "1">>)
  /\ \A p \in DOMAIN processedData.samples :
       Has(processedData.samples[p], "tm")

\* two samples agree on every field but visible
SameButVisible(a, b) ==
  /\ DOMAIN a = DOMAIN b
  /\ \A f \in DOMAIN a \ {"visible"} : a[f] = b[f]

\* a step leaves the temperatures, the regions and every sample's fields
\* other than visible as they are
NumericFrame ==
  \/ processedData = JSNull /\ processedData' = JSNull
  \/ /\ processedData # JSNull
     /\ processedData' # JSNull
     /\ DOMAIN processedData' = DOMAIN processedData
     /\ \A f \in DOMAIN processedData \ {"samples"} :
          processedData'[f] = processedData[f]
     /\ Len(processedData'.samples) = Len(processedData.samples)
     /\ \A p \in DOMAIN processedData.samples :
          SameButVisible(processedData'.samples[p], processedData.samples[p])

\* a step runs no analysis: the settings stay, and no analysisComplete
\* event and no toast comes out of it
NoAnalysis ==
  /\ settings' = settings
  /\ rawData' = rawData
  /\ toasts' = <<>>
  /\ \A e \in DOMAIN events' : events'[e] # "analysisComplete"

\* the visible flags after a step are given by NewFlag(p, old flag)
FlagsBecome(NewFlag(_, _)) ==
  /\ events' = <<"sampleVisibilityChanged">>
  /\ \A p \in DOMAIN processedData.samples :
       processedData'.samples[p].visible =
         NewFlag(p, processedData.samples[p].visible)

NothingHappens == processedData' = processedData /\ events' = <<>>

\* C9: the three visibility operations change visible flags only - toggle
\* flips the flag of its sample, set sets it, set-all sets every flag - and
\* run no analysis; an index with no sample changes nothing and dispatches
\* no event.
C9_VisibilityFrame ==
  [][ /\ \A i \in SampleIndexes :
           ToggleSampleVisibility(i) =>
             /\ NumericFrame
             /\ NoAnalysis
             /\ IF HasSample(i)
                THEN LET Flip(p, old) == IF p = i + 1 THEN ~old ELSE old
                     IN  FlagsBecome(Flip)
                ELSE NothingHappens
      /\ \A i \in SampleIndexes, v \in BOOLEAN :
           SetSampleVisibility(i, v) =>
             /\ NumericFrame
             /\ NoAnalysis
             /\ IF HasSample(i)
                THEN LET Put(p, old) == IF p = i + 1 THEN v ELSE old
                     IN  FlagsBecome(Put)
                ELSE NothingHappens
      /\ \A v \in BOOLEAN :
           SetAllSamplesVisibility(v) =>
             /\ NumericFrame
             /\ NoAnalysis
             /\ IF Loaded
                THEN LET All(p, old) == v
                     IN  FlagsBecome(All)
                ELSE NothingHappens ]_vars

\* C9 witness: a toggle hid a sample of an analysed result that carries
\* difference curves
C9_Witness ==
  /\ lastCall.op = "toggleSampleVisibility"
  /\ events = <<"sampleVisibilityChanged">>
  /\ Has(processedData, "regions")
  /\ \E p \in DOMAIN processedData.samples :
       /\ ~processedData.samples[p].visible
       /\ Has(processedData.samples[p], "difference")

\* an analyze step leaves the reading, the temperature axis, the number and
\* order of the samples and each sample's name, fluorescence and visible
AnalyzeFrame ==
  /\ rawData' = rawData
  /\ \/ processedData = JSNull /\ processedData' = JSNull
     \/ /\ processedData # JSNull
        /\ processedData' # JSNull
        /\ processedData'.temperatures = processedData.temperatures
        /\ Len(processedData'.samples) = Len(processedData.samples)
        /\ \A p \in DOMAIN processedData.samples :
             Bare(processedData'.samples[p]) = Bare(processedData.samples[p])

\* C10: analyze changes no visible flag, name or raw fluorescence, nor the
\* number or order of the samples, nor the temperature axis; extraction
\* creates each sample visible and with no normalized, derivative, tm or
\* difference.
C10_AnalyzeFrame ==
  /\ [](SetDataSucceeded =>
          \A p \in DOMAIN processedData.samples :
            /\ DOMAIN processedData.samples[p]
                 = {"name", "fluorescence", "visible"}
            /\ processedData.samples[p].visible = TRUE)
  /\ [][lastCall'.op = "analyze" => AnalyzeFrame]_vars

\* C10 witness: an analysis returned a result in which one sample is hidden
\* and another is shown
C10_Witness ==
  /\ AnalyzeSucceeded
  /\ \E p, q \in DOMAIN processedData.samples :
       /\ ~processedData.samples[p].visible
       /\ processedData.samples[q].visible

\* the fields exportProcessedData writes after the raw column, in its order
ExportFields == <<"normalized", "derivative", "difference">>

ExportSuffix(field) ==
  CASE field = "normalized" -> "_Normalized"
    [] field = "derivative" -> "_Derivative"
    [] field = "difference" -> "_Difference"

\* the fields of ExportFields a sample carries, in that order
PopulatedFields(sample) ==
  LET Populated(field) == Has(sample, field)
  IN  SelectSeq(ExportFields, Populated)

\* the column of the export table that holds the raw values of sample p
RECURSIVE RawColumn(_, _)
RawColumn(samples, p) ==
  IF p = 1 THEN 2
  ELSE RawColumn(samples, p - 1)
       + 1 + Len(PopulatedFields(samples[p - 1]))

\* C11: exportProcessedData returns a header row and one row per
\* temperature point; the columns are Temperature, then per sample in order
\* its Raw column followed by Normalized, Derivative and Difference, each
\* present exactly when the sample carries that field; every data row is as
\* long as the header row and holds the values of its point.
C11_ExportTable ==
  (lastCall.op = "exportProcessedData" /\ Loaded) =>
    LET table == lastCall.exportData
        samples == processedData.samples
        temperatures == processedData.temperatures
        width == RawColumn(samples, Len(samples) + 1) - 1
    IN  /\ Len(table) = 1 + Len(temperatures)
        /\ Len(table[1]) = width
        /\ table[1][1] = "Temperature"
        /\ \A p \in DOMAIN samples :
             LET c == RawColumn(samples, p)
                 fields == PopulatedFields(samples[p])
             IN  /\ table[1][c] = samples[p].name \o "_Raw"
                 /\ \A j \in DOMAIN fields :
                      table[1][c + j] =
                        samples[p].name \o ExportSuffix(fields[j])
        /\ \A r \in DOMAIN temperatures :
             /\ Len(table[r + 1]) = width
             /\ table[r + 1][1] = temperatures[r]
             /\ \A p \in DOMAIN samples :
                  LET c == RawColumn(samples, p)
                      fields == PopulatedFields(samples[p])
                  IN  /\ table[r + 1][c] = samples[p].fluorescence[r]
                      /\ \A j \in DOMAIN fields :
                           table[r + 1][c + j] = samples[p][fields[j]][r]

\* C11 witness: an export of two analysed samples that carry difference
\* curves, nine columns wide, and an export of an unanalysed reading is
\* possible too (its samples have the raw column only)
C11_Witness ==
  /\ lastCall.op = "exportProcessedData"
  /\ Loaded
  /\ Len(processedData.samples) = 2
  /\ \A p \in DOMAIN processedData.samples :
       Has(processedData.samples[p], "difference")
  /\ Len(lastCall.exportData[1]) = 9
  /\ Len(lastCall.exportData) > 2


\* the last call was a drop of a .eds file, with the JSZip script loaded
Dropped == lastCall.op = "parseEDSFile" /\ lastCall.libLoads

\* the drop failed with the message: nothing was returned, no dataLoaded
\* event was dispatched and no reading reached the processor
DropFailedWith(message) ==
  /\ lastCall.ret = "throws"
  /\ lastCall.message = message
  /\ ~Has(lastCall, "parsedData")
  /\ \A e \in DOMAIN events : events[e] # "dataLoaded"
  /\ rawData = JSNull
  /\ processedData = JSNull
  /\ toasts = <<Toast("Error", message, "error")>>

\* C12: a file that is no archive fails with the decode error, and an
\* archive without the entry apldbio/sds/meltcuve_result.txt fails with the
\* no-HRM-data error whatever other entries it has; in both cases no
\* reading is returned and no dataLoaded event is dispatched.
C12_OnlyTheMeltEntry ==
  Dropped =>
    LET file == lastCall.file
    IN  /\ ~file.zip =>
             DropFailedWith("Failed to parse .eds file: " \o file.decodeError)
        /\ (file.zip /\ "apldbio/sds/meltcuve_result.txt" \notin DOMAIN file.entries)
             => DropFailedWith(
                  "Failed to parse .eds file: No HRM/melt curve data found in this .eds file")
        /\ lastCall.ret = "parsedData" =>
             /\ file.zip
             /\ "apldbio/sds/meltcuve_result.txt" \in DOMAIN file.entries
             /\ events = <<"dataLoaded">>

\* C12 witness: an archive that has other entries, one of them with the
\* name spelled meltcurve, but not the entry, was dropped and failed
C12_Witness ==
  /\ Dropped
  /\ lastCall.file.zip
  /\ "apldbio/sds/meltcurve_result.txt" \in DOMAIN lastCall.file.entries
  /\ "apldbio/sds/meltcuve_result.txt" \notin DOMAIN lastCall.file.entries
  /\ lastCall.ret = "throws"
  /\ events = <<>>

\* the drop returned a table
DropReturned == Dropped /\ lastCall.ret = "parsedData"

\* the lines of the melt curve entry of the dropped archive
DroppedLines ==
  split(NormalizeLineEndings(lastCall.file.entries[MeltEntryName]), "\n")

\* C13: in the table the parser returns, the column names of the samples
\* are pairwise distinct, whatever the parsed sample names are.
C13_UniqueColumnNames ==
  DropReturned =>
    LET headers == lastCall.parsedData.headers
    IN  \A c1, c2 \in 2..Len(headers) : c1 # c2 => headers[c1] # headers[c2]

\* a record line with an empty name field: digits, two tabs, two non-empty
\* fields and the rest
UnnamedRecordLine(line) ==
  LET fields == split(line, "\t")
  IN  /\ Len(fields) >= 5
      /\ fields[1] # <<>>
      /\ \A i \in DOMAIN fields[1] : IsDigit(fields[1][i])
      /\ fields[2] = <<>>
      /\ fields[3] # <<>>
      /\ fields[4] # <<>>

\* the positions of the unnamed record lines that are followed by a line of
\* sample temperatures with a value
UnnamedRecords(lines) ==
  { k \in 1..(Len(lines) - 1) :
      /\ UnnamedRecordLine(lines[k])
      /\ startsWith(lines[k + 1], SampleTemperaturesWord)
      /\ parseTabValues(Drop(lines[k + 1], Len(SampleTemperaturesWord))) # <<>> }

\* Well_<wellNumber + 1> for the record line
WellName(line) == "Well_" \o Str(NatStr(ScanDigits(line, 0, 0)[1] + 1))

\* C14: a record line with an empty name field is parsed as a sample record
\* and its column is named Well_<wellNumber+1> (with the position suffix
\* when that name is taken); two such records get two distinct columns.
C14_UnnamedRecordsAreWells ==
  (Dropped /\ lastCall.file.zip /\ MeltEntryName \in DOMAIN lastCall.file.entries) =>
    LET unnamed == UnnamedRecords(DroppedLines)
    IN  unnamed # {} =>
          /\ lastCall.ret = "parsedData"
          /\ LET headers == lastCall.parsedData.headers
             IN  \E col \in [unnamed -> 2..Len(headers)] :
                   /\ \A k1, k2 \in unnamed : k1 # k2 => col[k1] # col[k2]
                   /\ \A k \in unnamed :
                        headers[col[k]] \in
                          { WellName(DroppedLines[k]),
                            WellName(DroppedLines[k]) \o "_"
                              \o Str(NatStr(col[k] - 1)) }

\* C15: the table has one row per temperature point of the first parsed
\* sample, row i holds that sample's i-th temperature, and the cell of
\* every sample in row i is the i-th value of its Rn values line (null when
\* the line has no i-th value).
C15_Alignment ==
  DropReturned =>
    LET samples == ParsedSamples(lastCall.file.entries[MeltEntryName])
        table == lastCall.parsedData
    IN  /\ Len(table.data) = Len(samples[1].temperatures)
        /\ \A r \in DOMAIN table.data :
             /\ Field(table.data[r], "Temperature")
                  = JSNum(samples[1].temperatures[r])
             /\ \A p \in DOMAIN samples :
                  Field(table.data[r], table.headers[p + 1]) =
                    IF r <= Len(samples[p].rnValues)
                    THEN JSNum(samples[p].rnValues[r])
                    ELSE JSNull

\* the positions of the rows of a reading whose temperature parses to a
\* finite number, in order
FiniteRows(raw) ==
  LET Finite(p) == IsFinite(parseFloat(Field(raw.data[p], raw.tempHeader)))
  IN  SelectSeq(MkArray([p \in 1..Len(raw.data) |-> p]), Finite)

\* C16: a row is kept if and only if its temperature parses to a finite
\* number: the temperature vector is the temperatures of those rows in
\* their order, and every fluorescence vector has one value per kept row,
\* the row's own value wherever its cell parses.
C16_FiniteRowsKept ==
  Loaded =>
    LET kept == FiniteRows(rawData)
    IN  /\ processedData.temperatures =
             MkArray([j \in 1..Len(kept) |->
                parseFloat(Field(rawData.data[kept[j]], rawData.tempHeader))])
        /\ \A p \in DOMAIN processedData.samples :
             LET sample == processedData.samples[p]
             IN  /\ Len(sample.fluorescence) = Len(kept)
                 /\ \A j \in DOMAIN kept :
                      LET val == parseFloat(Field(rawData.data[kept[j]],
                                                  sample.name))
                      IN  ~isNaN(val) => sample.fluorescence[j] = val

\* the positions of a vector that hold a value
Present(arr) == { i \in DOMAIN arr : arr[i] # Null }

\* C17: fillMissingValues returns a vector of the same length; when the
\* input holds a value, the output holds no null, keeps every value where
\* it is, and gives a missing position the nearest value before it or, when
\* none precedes it, the first value of the vector; an input of nulls only
\* becomes all 0.
C17_FillMissingValues ==
  lastCall.op = "fillMissingValues" =>
    LET arr == lastCall.arr
        out == lastCall.array
    IN  /\ Len(out) = Len(arr)
        /\ \A i \in DOMAIN arr :
             IF Present(arr) = {} THEN out[i] = Zero
             ELSE IF i \in Present(arr) THEN out[i] = arr[i]
             ELSE IF \E j \in Present(arr) : j < i
             THEN \E j \in Present(arr) :
                    /\ j < i
                    /\ \A k \in Present(arr) : k < i => k <= j
                    /\ out[i] = arr[j]
             ELSE \E j \in Present(arr) :
                    /\ \A k \in Present(arr) : j <= k
                    /\ out[i] = arr[j]
        /\ Present(arr) # {} => Present(out) = DOMAIN out

\* C17 witness: a vector that starts with a null, holds two different
\* values and has a null after each of them
C17_Witness ==
  /\ lastCall.op = "fillMissingValues"
  /\ Len(lastCall.arr) = 4
  /\ lastCall.arr[1] = Null
  /\ lastCall.arr[2] = Int2Num(7)
  /\ lastCall.arr[3] = Zero
  /\ lastCall.arr[4] = Null
  /\ lastCall.array = <<Int2Num(7), Int2Num(7), Zero, Zero>>

\* C18: after an analyze of a reading with fewer than 10 temperature
\* points the pre-melt window is empty (preStart = preEnd = 0), analyze has
\* returned the result and not null, and every normalized value of every
\* sample is non-finite.
C18_ShortReadingDegenerates ==
  (lastCall.op = "analyze" /\ Loaded /\ Len(processedData.temperatures) < 10) =>
    /\ lastCall.ret = "processedData"
    /\ Has(processedData, "regions")
    /\ processedData.regions.preStart = 0
    /\ processedData.regions.preEnd = 0
    /\ processedData.regions.postStart =
         (9 * Len(processedData.temperatures)) \div 10
    /\ processedData.regions.postEnd = Len(processedData.temperatures)
    /\ \A p \in DOMAIN processedData.samples :
         /\ Has(processedData.samples[p], "normalized")
         /\ Len(processedData.samples[p].normalized) =
              Len(processedData.temperatures)
         /\ \A i \in DOMAIN processedData.samples[p].normalized :
              ~IsFinite(processedData.samples[p].normalized[i])

\* C18 witness: a reading of MaxSmallRows points and two samples was
\* analysed and its post-melt window is the last point
C18_Witness ==
  /\ AnalyzeSucceeded
  /\ Len(processedData.temperatures) = MaxSmallRows
  /\ Len(processedData.samples) = 2
  /\ processedData.regions.preEnd = 0
  /\ processedData.regions.postStart = MaxSmallRows - 1
  /\ \A p \in DOMAIN processedData.samples :
       \A i \in DOMAIN processedData.samples[p].normalized :
         isNaN(processedData.samples[p].normalized[i])

\* every value of a sample's normalized curve is non-finite
Degenerate(sample) ==
  /\ Has(sample, "normalized")
  /\ sample.normalized # <<>>
  /\ \A i \in DOMAIN sample.normalized : ~IsFinite(sample.normalized[i])

\* C19: after analyze, a sample whose normalized curve is non-finite at
\* every point has a derivative that is non-finite at every point and a tm
\* that is non-finite.
C19_NonFinitePropagates ==
  (Loaded /\ Has(processedData, "regions")) =>
    \A p \in DOMAIN processedData.samples :
      LET sample == processedData.samples[p]
      IN  Degenerate(sample) =>
            /\ \A i \in DOMAIN sample.derivative :
                 ~IsFinite(sample.derivative[i])
            /\ ~IsFinite(sample.tm)

\* the positions of the record lines: the lines the record pattern accepts
RecordLines(lines) == { k \in DOMAIN lines : SampleMatch(lines[k]) # <<>> }

\* the last line of the record that starts at line k, K being the record
\* lines: the line before the next record line, or the last line of the
\* stream
BlockEnd(lines, K, k) ==
  IF \E j \in K : j > k
  THEN (CHOOSE j \in K : j > k /\ \A i \in K : i > k => j <= i) - 1
  ELSE Len(lines)

\* the temperature points the record of line k holds when it is closed:
\* those of the last line of sample temperatures of its block
TemperaturesAtClose(lines, K, k) ==
  LET tempLines == { j \in (k + 1)..BlockEnd(lines, K, k) :
                       startsWith(lines[j], SampleTemperaturesWord) }
  IN  IF tempLines = {} THEN <<>>
      ELSE LET last == CHOOSE j \in tempLines : \A i \in tempLines : i <= j
           IN  parseTabValues(Drop(lines[last], Len(SampleTemperaturesWord)))

\* the record lines whose record holds a temperature point when closed
ClosedWithTemperatures(lines, K) ==
  { k \in K : TemperaturesAtClose(lines, K, k) # <<>> }

\* the p-th smallest member of a set of positions
NthOf(S, p) == CHOOSE k \in S : Cardinality({ j \in S : j < k }) = p - 1

\* C20: the samples the scan collects are, in stream order and once each,
\* the records that hold at least one temperature point when they are
\* closed by the next record line or by the end of the stream; the parse
\* returns a table of that many samples, and fails with the no-data error
\* exactly when there is none.
C20_RecordClosing ==
  (Dropped /\ lastCall.file.zip /\ HasEntry(lastCall.file, MeltEntryName)) =>
    \A lines \in {DroppedLines} :
    \A K \in {RecordLines(lines)} :
    \A closed \in {ClosedWithTemperatures(lines, K)} :
    \A samples \in {ParsedSamples(EntryText(lastCall.file, MeltEntryName))} :
        /\ Len(samples) = Cardinality(closed)
        /\ \A p \in DOMAIN samples :
             LET k == NthOf(closed, p)
             IN  /\ samples[p].wellNumber =
                      Int2Num(ScanDigits(lines[k], 0, 0)[1])
                 /\ samples[p].sampleName = Str(SampleMatch(lines[k])[2])
                 /\ samples[p].temperatures = TemperaturesAtClose(lines, K, k)
        /\ IF closed = {}
           THEN DropFailedWith("Failed to parse .eds file: "
                               \o "No valid melt curve data found in file")
           ELSE /\ lastCall.ret = "parsedData"
                /\ lastCall.parsedData.sampleCount = Cardinality(closed)
                /\ Len(lastCall.parsedData.headers) = Cardinality(closed) + 1

\* C20 witness: a table was returned from a stream of three records of
\* which the first is closed with temperatures by the second record line,
\* the second holds none when the third record line closes it, and the
\* third is closed with temperatures by the end of the stream
C20_Witness ==
  /\ DropReturned
  /\ \E lines \in {DroppedLines} :
     \E K \in {RecordLines(lines)} :
       /\ Cardinality(K) = 3
       /\ NthOf(K, 1) \in ClosedWithTemperatures(lines, K)
       /\ NthOf(K, 2) \notin ClosedWithTemperatures(lines, K)
       /\ \E j \in NthOf(K, 2)..BlockEnd(lines, K, NthOf(K, 2)) :
            startsWith(lines[j], SampleTemperaturesWord)
       /\ NthOf(K, 3) \in ClosedWithTemperatures(lines, K)
  /\ lastCall.parsedData.sampleCount = 2

\* C21: movingAverage(arr, w) gives at every index i the arithmetic mean of
\* the input over the indexes max(0, i - h) .. min(N, i + h + 1) - 1 with
\* h = floor(w / 2): the window is cut at the edges and nothing is padded;
\* with w = 1 the output is the input.
C21_MovingAverage ==
  lastCall.op = "movingAverage" =>
    LET arr == lastCall.arr
        out == lastCall.array
        N == Len(arr)
        h == lastCall.windowSize \div 2
    IN  /\ Len(out) = N
        /\ \A p \in DOMAIN arr :
             LET i == p - 1
             IN  out[p] = WindowMean(arr, Max(0, i - h), Min(N, i + h + 1))
        /\ lastCall.windowSize = 1 => out = arr

\* C21 witness: a window of 3 over five values that differ: the two edge
\* values are means of two points, the interior ones of three
C21_Witness ==
  /\ lastCall.op = "movingAverage"
  /\ lastCall.windowSize = 3
  /\ lastCall.arr = <<Zero, One, Int2Num(4), One, One>>
  /\ lastCall.array = <<Rat(1, 2), Rat(5, 3), Int2Num(2), Int2Num(2), One>>

\* (y[a] - y[b]) / (x[a] - x[b]) for 0-based indexes; an index outside
\* the vectors gives NaN
DifferenceQuotient(x, y, a, b) ==
  Div(Sub(At(y, a), At(y, b)), Sub(At(x, a), At(x, b)))

\* the derivative of the curve as the claim states it, index by index
StatedDerivative(x, y, i) ==
  IF i = 0 THEN DifferenceQuotient(x, y, 1, 0)
  ELSE IF i = Len(x) - 1 THEN DifferenceQuotient(x, y, i, i - 1)
  ELSE DifferenceQuotient(x, y, i + 1, i - 1)

\* x is strictly increasing and y = m * x + b on it, for some b
LinearCurve(x, y, m) ==
  /\ Len(x) >= 3
  /\ \A p \in 1..(Len(x) - 1) : Gt(x[p + 1], x[p])
  /\ \A p \in 2..Len(x) : DifferenceQuotient(x, y, p - 1, 0) = m

\* the smoothed curve as C21 states it
StatedSmoothed(arr, w) ==
  MkArray([p \in 1..Len(arr) |->
     WindowMean(arr, Max(0, p - 1 - (w \div 2)),
                Min(Len(arr), p + (w \div 2)))])

\* the slope of the curve between its first two points
FirstSlope(x, y) == DifferenceQuotient(x, y, 1, 0)

\* C22: calculateDerivative gives the central difference at the interior
\* indexes, the forward difference at index 0 and the backward difference
\* at the last index, so m at every interior index of a curve y = m*x + b
\* over strictly increasing x; the derivative analyze stores for a sample
\* is the negation of each of these values, taken on the smoothed curve.
C22_Derivative ==
  /\ lastCall.op = "calculateDerivative" =>
       LET x == lastCall.xValues
           y == lastCall.yValues
           out == lastCall.array
       IN  /\ Len(out) = Len(x)
           /\ \A p \in DOMAIN x : out[p] = StatedDerivative(x, y, p - 1)
           /\ Len(x) >= 1 =>
                out[Len(x)] = DifferenceQuotient(x, y, Len(x) - 1, Len(x) - 2)
           /\ LinearCurve(x, y, FirstSlope(x, y)) =>
                \A p \in 2..(Len(x) - 1) : out[p] = FirstSlope(x, y)
  /\ lastCall.op = "derivativeSamples" =>
       LET x == lastCall.temperatures
           y == StatedSmoothed(lastCall.normalized, lastCall.smoothingWindow)
           out == lastCall.sample.derivative
       IN  /\ Len(out) = Len(x)
           /\ \A p \in DOMAIN x : out[p] = Neg(StatedDerivative(x, y, p - 1))
           /\ (lastCall.smoothingWindow = 1
                /\ LinearCurve(x, lastCall.normalized,
                               FirstSlope(x, lastCall.normalized)))
               => \A p \in 2..(Len(x) - 1) :
                    out[p] = Neg(FirstSlope(x, lastCall.normalized))

\* C22 witness: the call on the curve y = 2x + 1 over x = 0, 1, 3 returned
\* the slope 2 at its interior point
C22_Witness ==
  /\ lastCall.op = "calculateDerivative"
  /\ lastCall.xValues = <<Zero, One, Int2Num(3)>>
  /\ lastCall.yValues = <<One, Int2Num(3), Int2Num(7)>>
  /\ LinearCurve(lastCall.xValues, lastCall.yValues, Int2Num(2))
  /\ lastCall.array[2] = Int2Num(2)

C23_NoLengthReconciliation ==
  (Dropped /\ lastCall.file.zip /\ HasEntry(lastCall.file, MeltEntryName)
   /\ ParsedSamples(EntryText(lastCall.file, MeltEntryName)) # <<>>) =>
    LET samples == ParsedSamples(EntryText(lastCall.file, MeltEntryName))
    IN  /\ lastCall.ret = "parsedData"
        /\ LET table == lastCall.parsedData
           IN  /\ Len(table.data) = Len(samples[1].temperatures)
               /\ \A p \in DOMAIN samples :
                    \A r \in DOMAIN table.data :
                      r > Len(samples[p].rnValues) =>
                        Field(table.data[r], table.headers[p + 1]) = JSNull

\* C24: a result analyze returns has the temperatures and the samples
\* extracted from the reading of the most recent setData (the reading
\* rawData holds); after a setData that failed, analyze returns no result.
C24_ResultOfLatestReading ==
  AnalyzeSucceeded =>
    LET e == extractSamples(rawData, JSNull)
    IN  /\ e.error = "none"
        /\ e.processedData # JSNull
        /\ processedData.temperatures = e.processedData.temperatures
        /\ Len(processedData.samples) = Len(e.processedData.samples)
        /\ \A p \in DOMAIN processedData.samples :
             /\ processedData.samples[p].name = e.processedData.samples[p].name
             /\ processedData.samples[p].fluorescence =
                  e.processedData.samples[p].fluorescence

\* sample p is the reference of the stored differences: its own difference
\* is all zero and every other difference is taken against its normalized
\* curve
IsReference(samples, p) ==
  \A q \in DOMAIN samples :
    /\ Has(samples[q], "difference")
    /\ Len(samples[q].difference) = Len(samples[q].normalized)
    /\ \A i \in DOMAIN samples[q].normalized :
         samples[q].difference[i] =
           IF q = p THEN Zero
           ELSE Sub(samples[q].normalized[i], samples[p].normalized[i])

\* C25: after an analysis run with the value of the option offered under
\* header name h, the sample named h is the reference of the differences.
C25_OptionNamesReference ==
  AnalyzeSucceeded =>
    \A o \in DOMAIN populateReferenceSamples(rawData) :
      LET option == populateReferenceSamples(rawData)[o]
      IN  settings.referenceSample = JSStr(option.value) =>
            \A p \in DOMAIN processedData.samples :
              processedData.samples[p].name = option.textContent =>
                IsReference(processedData.samples, p)

\* C26: in the table the parser returns, the temperature field of row i is
\* the i-th temperature of the first parsed sample, and the column of every
\* parsed sample is another column than the temperature column, whatever
\* the samples are named.
C26_TemperatureColumnKept ==
  DropReturned =>
    LET samples == ParsedSamples(EntryText(lastCall.file, MeltEntryName))
        table == lastCall.parsedData
    IN  /\ table.headers[1] = table.tempHeader
        /\ \A r \in DOMAIN table.data :
             /\ r <= Len(samples[1].temperatures)
             /\ Field(table.data[r], table.tempHeader) =
                  JSNum(samples[1].temperatures[r])
        /\ \A p \in DOMAIN samples : table.headers[p + 1] # table.tempHeader

====
